---- MODULE Spec2Model ----
(***************************************************************************)
(* Lightflus coordination plane: the per-peer RPC gateways                 *)
(* (common/src/net/gateway.rs) and the Coordinator with its dataflow       *)
(* storage (coordinator/src/coord.rs).                                     *)
(*                                                                         *)
(* Six specifications share this module:                                   *)
(*   GatewaySpec  one Safe*RpcGateway (all clones share `inner`) and the   *)
(*                calls issued on it;                                      *)
(*   Spec         one Coordinator: its storage, its cluster and the        *)
(*                create_dataflow / terminate_dataflow calls made on it;   *)
(*   StorageSpec  one DataflowStorageImpl and the save / get / may_exists  *)
(*                / delete operations applied to it;                       *)
(*   MockSpec     one MockRpcGateway, the receive_ack calls made on it and *)
(*                the receiver of its ack queue.                           *)
(*   CancelSpec   one worker gateway whose calls may be cancelled, with    *)
(*                the executor polling the call that holds the token;      *)
(*   RaceSpec     one Coordinator given two create_dataflow submissions    *)
(*                that interleave at their suspension points.              *)
(* Option<T> values are sequences: <<>> is None, <<x>> is Some(x).         *)
(***************************************************************************)
EXTENDS Naturals, Integers, Sequences, FiniteSets, TLC

VARIABLES
    gwKind,          \* "unbuilt" | "worker" | "coordinator": which gateway was constructed
    inner,           \* Arc<Mutex<Option<Client>>>: the cached client (Option)
    chanCount,       \* number of clients/channels built so far for this gateway
    connectAttempts, \* blocking connection attempts made by a constructor
    connectOk,       \* whether the constructor's connection attempt succeeded
    holder,          \* the call that owns the mutex guard, 0 when the mutex is free
    waiters,         \* calls queued on the mutex, in request order
    calls,           \* every call issued on the gateway, in request order
    hostCleared,     \* host_addr of the closed handle was cleared
    closePending,    \* close() ran and no call has been issued since
    backend,         \* DataflowStorageImpl variant: "Memory" | "Persist"
    store,           \* the storage's map: key -> stored value
    nWorkers,        \* the cluster configuration: workers 1..nWorkers, in order
    status,          \* Worker.status of each configured worker
    pc,              \* where the Coordinator call in progress stands ("idle": none)
    cur,             \* the Coordinator call in progress
    pending,         \* workers the current broadcast / deployment has yet to call
    rpcLog,          \* per worker, the RPCs sent to it by the current (or last) call
    nCalls,          \* how many Coordinator calls have been made
    last,            \* the Coordinator call that returned last
    prev,            \* summary of the call before the one in progress (when idle: before `last`)
    shadow,          \* per job, the dataflow saved last and not deleted since (Option)
    stLast,          \* the storage operation applied last, and what it returned
    stPrev,          \* what the storage operation before `stLast` was
    mkCap,           \* ack_buf_size: the capacity of the mock's ack queue
    mkQueue,         \* acks buffered in the ack queue, oldest first
    mkWaiters,       \* receive_ack calls waiting for a free slot, in request order
    mkCalls,         \* every receive_ack call made on the mock, in invocation order
    mkRecv,          \* acks the receiver has taken from the queue, in order
    mkRxOpen,        \* the Receiver<Ack> has not been dropped
    subs,            \* the two concurrent create_dataflow submissions
    store0           \* the storage as it was before the two submissions

gwVars == <<gwKind, inner, chanCount, connectAttempts, connectOk, holder, waiters,
            calls, hostCleared, closePending>>

coVars == <<backend, store, nWorkers, status, pc, cur, pending, rpcLog, nCalls,
            last, prev>>

stVars == <<shadow, stLast, stPrev>>

mkVars == <<mkCap, mkQueue, mkWaiters, mkCalls, mkRecv, mkRxOpen>>

rcVars == <<subs, store0>>

vars == <<gwVars, coVars, stVars, mkVars, rcVars>>

----------------------------------------------------------------------------
(* Bounds *)

MaxGwCalls == 3

MaxWorkers == 2

NumJobs == 1

MaxCalls == 3

MaxAckBuf == 2

MaxAcks == 4

NumRaceJobs == 2

----------------------------------------------------------------------------
(* Option helpers *)

NoneV == <<>>

Some(x) == <<x>>

IsSome(o) == o # <<>>

Unwrap(o) == o[1]

----------------------------------------------------------------------------
(* RPC gateway: common/src/net/gateway.rs *)

DEFAULT_CONNECT_TIMEOUT == 3

\* Timeouts a caller may hand to with_connection_timeout.
ConnectTimeouts == {1, DEFAULT_CONNECT_TIMEOUT}

WorkerMethods ==
    {"receive_ack", "receive_heartbeat", "send_event_to_operator",
     "stop_dataflow", "create_sub_dataflow"}

CoordinatorMethods ==
    {"receive_heartbeat", "receive_ack", "create_dataflow",
     "terminate_dataflow", "get_dataflow", "report_task_info"}

Methods(kind) ==
    IF kind = "worker" THEN WorkerMethods
    ELSE IF kind = "coordinator" THEN CoordinatorMethods
    ELSE {}

\* The client built by Client::with_connection_timeout(uri, timeout).
Client(id, timeout) == [id |-> id, timeout |-> timeout]

\* Mutant of WorkerNewInner: the constructor leaves the cache empty.
WorkerNewInnerLazy(id, timeout) == NoneV

\* SafeTaskManagerRpcGateway::new / with_connection_timeout: the client is
\* built in the constructor and cached as Some(client).
WorkerNewInner(id, timeout) == Some(Client(id, timeout))

\* SafeCoordinatorRpcGateway::new: block_on(connect_with_timeout(..)), then
\* client.ok(): Some on a successful connect, None on a failed one.
CoordinatorNewInner(id, ok) ==
    IF ok THEN Some(Client(id, DEFAULT_CONNECT_TIMEOUT)) ELSE NoneV

\* guard.get_or_insert_with(|| Client::with_connection_timeout(uri, DEFAULT)):
\* the cached client when there is one, a new client otherwise.
GetOrInsertWith(cache, id) ==
    IF IsSome(cache) THEN cache ELSE Some(Client(id, DEFAULT_CONNECT_TIMEOUT))

\* Mutant of LockRequest: the token is handed out although it is held.
LockRequestNoExclusion(h, ws, i) == <<i, ws>>

\* self.inner.lock().await, first poll: the guard is taken when the mutex is
\* free, otherwise the caller is appended to the FIFO wait queue.
LockRequest(h, ws, i) ==
    IF h = 0 THEN <<i, ws>> ELSE <<h, Append(ws, i)>>

\* Mutant of ReleaseLock: the most recent waiter is served first.
ReleaseLockLifo(ws) ==
    IF ws = <<>> THEN <<0, <<>>>>
    ELSE <<ws[Len(ws)], SubSeq(ws, 1, Len(ws) - 1)>>

\* Dropping the guard: the permit is handed to the longest-waiting caller,
\* and the mutex becomes free only when nobody waits.
ReleaseLock(ws) ==
    IF ws = <<>> THEN <<0, <<>>>> ELSE <<Head(ws), Tail(ws)>>

\* Mutant of CacheAfterCall: a failed call invalidates the cached client.
CacheAfterCallInvalidating(cache, ok) == IF ok THEN cache ELSE NoneV

\* inner.<rpc>(..).await.map(|resp| resp.into_inner()): the result is mapped
\* and returned; the Option behind the guard is not touched on Ok or on Err.
CacheAfterCall(cache, ok) == cache

\* close(): drop(self.inner.as_ref()) drops a reference to the Arc, not the
\* client: the cache is what it was.
CacheAfterClose(cache) == cache

NewCall(m, st, q) ==
    [method |-> m, state |-> st, chan |-> 0, fresh |-> FALSE,
     queued |-> q, afterClose |-> closePending, result |-> "pending"]

GwInit ==
    /\ gwKind = "unbuilt"
    /\ inner = NoneV
    /\ chanCount = 0
    /\ connectAttempts = 0
    /\ connectOk = FALSE
    /\ holder = 0
    /\ waiters = <<>>
    /\ calls = <<>>
    /\ hostCleared = FALSE
    /\ closePending = FALSE

\* SafeTaskManagerRpcGateway::new(host_addr)
WorkerNew ==
    /\ gwKind = "unbuilt"
    /\ gwKind' = "worker"
    /\ inner' = WorkerNewInner(chanCount + 1, DEFAULT_CONNECT_TIMEOUT)
    /\ chanCount' = chanCount + 1
    /\ UNCHANGED <<connectAttempts, connectOk, holder, waiters, calls,
                   hostCleared, closePending>>
    /\ UNCHANGED <<coVars, stVars, mkVars, rcVars>>

\* SafeTaskManagerRpcGateway::with_connection_timeout(host_addr, connect_timeout)
WorkerWithConnectionTimeout ==
    /\ gwKind = "unbuilt"
    /\ \E t \in ConnectTimeouts :
         inner' = WorkerNewInner(chanCount + 1, t)
    /\ gwKind' = "worker"
    /\ chanCount' = chanCount + 1
    /\ UNCHANGED <<connectAttempts, connectOk, holder, waiters, calls,
                   hostCleared, closePending>>
    /\ UNCHANGED <<coVars, stVars, mkVars, rcVars>>

\* SafeCoordinatorRpcGateway::new(host_addr)
CoordinatorNew ==
    /\ gwKind = "unbuilt"
    /\ \E ok \in BOOLEAN :
         /\ inner' = CoordinatorNewInner(chanCount + 1, ok)
         /\ chanCount' = IF ok THEN chanCount + 1 ELSE chanCount
         /\ connectOk' = ok
    /\ gwKind' = "coordinator"
    /\ connectAttempts' = connectAttempts + 1
    /\ UNCHANGED <<holder, waiters, calls, hostCleared, closePending>>
    /\ UNCHANGED <<coVars, stVars, mkVars, rcVars>>

\* A typed method is called (on any clone) and polled up to `lock().await`.
Invoke ==
    /\ gwKind # "unbuilt"
    /\ Len(calls) < MaxGwCalls
    /\ \E m \in Methods(gwKind) :
         LET i == Len(calls) + 1
             l == LockRequest(holder, waiters, i)
         IN  /\ holder' = l[1]
             /\ waiters' = l[2]
             /\ calls' = Append(calls,
                    NewCall(m, IF l[1] = i THEN "locked" ELSE "waiting", l[1] # i))
    /\ closePending' = FALSE
    /\ UNCHANGED <<gwKind, inner, chanCount, connectAttempts, connectOk, hostCleared>>
    /\ UNCHANGED <<coVars, stVars, mkVars, rcVars>>

\* The guard's owner runs get_or_insert_with and starts its transport call.
BeginTransport(i) ==
    /\ calls[i].state = "locked"
    /\ LET c == GetOrInsertWith(inner, chanCount + 1)
       IN  /\ inner' = c
           /\ chanCount' = IF IsSome(inner) THEN chanCount ELSE chanCount + 1
           /\ calls' = [calls EXCEPT ![i].state = "inflight",
                                     ![i].chan = Unwrap(c).id,
                                     ![i].fresh = ~IsSome(inner)]
    /\ UNCHANGED <<gwKind, connectAttempts, connectOk, holder, waiters,
                   hostCleared, closePending>>
    /\ UNCHANGED <<coVars, stVars, mkVars, rcVars>>

\* The transport answers (Ok or a tonic::Status error); the method returns and
\* its guard is dropped. The record of a returned call keeps its outcome and
\* its channel, not its method.
Respond(i) ==
    /\ calls[i].state = "inflight"
    /\ \E ok \in BOOLEAN :
         LET l == ReleaseLock(waiters)
             done == [calls EXCEPT ![i].state = "done", ![i].method = "",
                                   ![i].result = IF ok THEN "ok" ELSE "err"]
         IN  /\ inner' = CacheAfterCall(inner, ok)
             /\ holder' = l[1]
             /\ waiters' = l[2]
             /\ calls' = IF l[1] = 0 THEN done
                         ELSE [done EXCEPT ![l[1]].state = "locked"]
    /\ UNCHANGED <<gwKind, chanCount, connectAttempts, connectOk,
                   hostCleared, closePending>>
    /\ UNCHANGED <<coVars, stVars, mkVars, rcVars>>

\* SafeTaskManagerRpcGateway::close(&mut self)
Close ==
    /\ gwKind = "worker"
    /\ ~closePending
    /\ hostCleared' = TRUE
    /\ inner' = CacheAfterClose(inner)
    /\ closePending' = TRUE
    /\ UNCHANGED <<gwKind, chanCount, connectAttempts, connectOk, holder,
                   waiters, calls>>
    /\ UNCHANGED <<coVars, stVars, mkVars, rcVars>>

\* Mutant of DropGuard: the guard of a dropped call is leaked.
DropGuardLeaked(h, ws, i) == <<h, ws>>

\* The future of call i is dropped (its task was cancelled): the MutexGuard
\* it holds is a local of the async method and is dropped with it, which
\* hands the token on as any release does; a call still queued on the mutex
\* leaves the wait queue.
DropGuard(h, ws, i) ==
    IF h = i THEN ReleaseLock(ws)
    ELSE <<h, SelectSeq(ws, LAMBDA x : x # i)>>

\* The task that awaits call i is cancelled: the call's future is dropped,
\* while it waits for the token, holds it, or is in its transport call (the
\* pending RPC is dropped with it).
Cancel(i) ==
    /\ calls[i].state \in {"waiting", "locked", "inflight"}
    /\ LET d == DropGuard(holder, waiters, i)
           gone == [calls EXCEPT ![i].state = "cancelled", ![i].method = "",
                                 ![i].result = "cancelled"]
       IN  /\ holder' = d[1]
           /\ waiters' = d[2]
           /\ calls' = IF d[1] = 0 \/ d[1] = holder THEN gone
                       ELSE [gone EXCEPT ![d[1]].state = "locked"]
    /\ UNCHANGED <<gwKind, inner, chanCount, connectAttempts, connectOk,
                   hostCleared, closePending>>
    /\ UNCHANGED <<coVars, stVars, mkVars, rcVars>>

GwNext ==
    \/ WorkerNew
    \/ WorkerWithConnectionTimeout
    \/ CoordinatorNew
    \/ Invoke
    \/ \E i \in 1..Len(calls) : BeginTransport(i)
    \/ \E i \in 1..Len(calls) : Respond(i)
    \/ Close

----------------------------------------------------------------------------
(* Dataflows and the cluster model (proto::common::Dataflow and             *)
(* common::net::cluster are not among the sources: modelled from the        *)
(* specification, sections 3 and 4.4)                                       *)

JobIds == 1..NumJobs

\* An operator of a dataflow: its executor id and its placement.
Node(id) == [executor_id |-> id, host_addr |-> NoneV]

\* Dataflow { job_id, nodes: ordered operators, edges: (from, to) pairs }.
Dataflow(job, ids, edges) ==
    [job_id |-> job,
     nodes |-> [i \in 1..Len(ids) |-> Node(ids[i])],
     edges |-> edges]

\* The well-formed dataflows a client submits for a job: two different
\* operator sets.
Chain(j) == Dataflow(Some(j), <<1, 2, 3>>, << <<1, 2>>, <<2, 3>> >>)

Pair(j) == Dataflow(Some(j), <<1, 2>>, << <<1, 2>> >>)

\* Ill-formed submissions: no job id, a repeated executor id, an edge to an
\* undeclared executor, a cycle.
NoJobDataflow == Dataflow(NoneV, <<1>>, <<>>)

DupIdDataflow == Dataflow(Some(1), <<1, 1>>, <<>>)

DanglingEdgeDataflow == Dataflow(Some(1), <<1>>, << <<1, 2>> >>)

CyclicDataflow == Dataflow(Some(1), <<1, 2>>, << <<1, 2>>, <<2, 1>> >>)

Submissions ==
    {Chain(j) : j \in JobIds} \cup {Pair(j) : j \in JobIds}
        \cup {NoJobDataflow, DupIdDataflow, DanglingEdgeDataflow, CyclicDataflow}

NodeIds(df) == {df.nodes[i].executor_id : i \in 1..Len(df.nodes)}

EdgeSet(df) == {df.edges[i] : i \in 1..Len(df.edges)}

RECURSIVE Reach(_, _, _)
\* Executors reachable from the set S along E in at most n further steps.
Reach(E, S, n) ==
    IF n = 0 THEN S
    ELSE Reach(E, S \cup {e[2] : e \in {x \in E : x[1] \in S}}, n - 1)

Acyclic(df) ==
    \A v \in NodeIds(df) :
        v \notin Reach(EdgeSet(df),
                       {e[2] : e \in {x \in EdgeSet(df) : x[1] = v}},
                       Len(df.nodes))

\* Dataflow::validate: (i) job_id present, (ii) executor ids unique,
\* (iii) edges refer to declared executors, (iv) the graph is acyclic.
Validate(df) ==
    /\ IsSome(df.job_id)
    /\ Cardinality(NodeIds(df)) = Len(df.nodes)
    /\ \A e \in EdgeSet(df) : e[1] \in NodeIds(df) /\ e[2] \in NodeIds(df)
    /\ Acyclic(df)

\* The job id a storage key is built from: the dataflow's job id, or the default
\* ResourceId (0) when it has none (map(..).unwrap_or_default()).
JobOf(df) == IF IsSome(df.job_id) THEN Unwrap(df.job_id) ELSE 0

WorkerList(n) == [i \in 1..n |-> i]

\* The ordered list W of configured workers that are not Unreachable.
AvailableWorkers(n, st) ==
    SelectSeq(WorkerList(n), LAMBDA w : st[w] # "Unreachable")

\* Cluster::partition_dataflow: operator i (from 0) is assigned W[i mod |W|];
\* with no worker available nothing is assigned (NoAvailableWorker).
PartitionDataflow(df, W) ==
    IF W = <<>> THEN df
    ELSE [df EXCEPT !.nodes =
            [i \in 1..Len(df.nodes) |->
                [df.nodes[i] EXCEPT !.host_addr = Some(W[((i - 1) % Len(W)) + 1])]]]

\* Cluster::create_dataflow groups the operators by host_addr: the workers
\* that host a partition, and the request sent to each.
Hosts(df) ==
    {Unwrap(df.nodes[i].host_addr) :
        i \in {k \in 1..Len(df.nodes) : IsSome(df.nodes[k].host_addr)}}

SubDataflowNodes(df, w) ==
    SelectSeq(df.nodes, LAMBDA n : n.host_addr = Some(w))

\* Cluster::terminate_dataflow broadcasts stop to every known worker.
BroadcastTargets(n) == 1..n

----------------------------------------------------------------------------
(* Dataflow storage: coordinator/src/coord.rs *)

\* ResourceId::encode_to_vec: the canonical bytes of a job id; a field that
\* holds its default value is not written.
EncodeResourceId(j) == IF j = 0 THEN <<>> ELSE << <<1, j>> >>

EncodeNode(n) ==
    (IF n.executor_id = 0 THEN <<>> ELSE << <<1, n.executor_id>> >>)
        \o (IF IsSome(n.host_addr) THEN << <<2, Unwrap(n.host_addr)>> >> ELSE <<>>)

\* Dataflow::encode_to_vec: the job id (field 1, when present), then the
\* operators (field 2) and the edges (field 3), each in order.
EncodeDataflow(df) ==
    (IF IsSome(df.job_id)
        THEN << <<1, EncodeResourceId(Unwrap(df.job_id))>> >> ELSE <<>>)
        \o [i \in 1..Len(df.nodes) |-> <<2, EncodeNode(df.nodes[i])>>]
        \o [i \in 1..Len(df.edges) |-> <<3, df.edges[i]>>]

FieldsOf(bytes, tag) == SelectSeq(bytes, LAMBDA f : f[1] = tag)

\* The value of scalar field `tag`, or its default when it was not written.
ScalarField(bytes, tag, default) ==
    IF FieldsOf(bytes, tag) = <<>> THEN default
    ELSE FieldsOf(bytes, tag)[Len(FieldsOf(bytes, tag))][2]

DecodeNode(bytes) ==
    [executor_id |-> ScalarField(bytes, 1, 0),
     host_addr |-> IF FieldsOf(bytes, 2) = <<>> THEN NoneV
                   ELSE Some(ScalarField(bytes, 2, 0))]

\* utils::from_pb_slice(&buf): the dataflow decoded from stored bytes.
DecodeDataflow(bytes) ==
    [job_id |-> IF FieldsOf(bytes, 1) = <<>> THEN NoneV
                ELSE Some(ScalarField(ScalarField(bytes, 1, <<>>), 1, 0)),
     nodes |-> [i \in 1..Len(FieldsOf(bytes, 2)) |->
                    DecodeNode(FieldsOf(bytes, 2)[i][2])],
     edges |-> [i \in 1..Len(FieldsOf(bytes, 3)) |-> FieldsOf(bytes, 3)[i][2]]]

\* Mutant of KeyOf: every job has the same key.
KeyOfShared(b, j) == <<>>

\* The key of a job: HashedResourceId::from(job_id) in the in-memory map, the
\* encoded job id in the persistent store.
KeyOf(b, j) == IF b = "Memory" THEN <<j>> ELSE EncodeResourceId(j)

\* The stored value: a clone of the dataflow, or its encoded bytes.
ValueOf(b, df) == IF b = "Memory" THEN df ELSE EncodeDataflow(df)

EmptyStore == [k \in {} |-> <<>>]

\* Outcomes of one access to the backing store: the persistent store may
\* answer with an error, the in-memory map cannot.
Faults(b) == IF b = "Persist" THEN BOOLEAN ELSE {FALSE}

\* Mutant of Save: a key that is present keeps its value.
SaveIfAbsent(b, s, df) ==
    IF KeyOf(b, JobOf(df)) \in DOMAIN s THEN s
    ELSE [k \in DOMAIN s \cup {KeyOf(b, JobOf(df))} |->
            IF k = KeyOf(b, JobOf(df)) THEN ValueOf(b, df) ELSE s[k]]

\* DataflowStorageImpl::save: insert or overwrite (upsert) under the job's key.
Save(b, s, df) ==
    [k \in DOMAIN s \cup {KeyOf(b, JobOf(df))} |->
        IF k = KeyOf(b, JobOf(df)) THEN ValueOf(b, df) ELSE s[k]]

\* DataflowStorageImpl::get: the stored dataflow, or None (also on a read error).
Get(b, s, j, fault) ==
    IF fault \/ KeyOf(b, j) \notin DOMAIN s THEN NoneV
    ELSE IF b = "Memory" THEN Some(s[KeyOf(b, j)])
    ELSE Some(DecodeDataflow(s[KeyOf(b, j)]))

\* Mutant of MayExists: every job may exist.
MayExistsAlways(b, s, j, fault) == TRUE

\* DataflowStorageImpl::may_exists: contains_key, and false on a read error
\* (unwrap_or(false)).
MayExists(b, s, j, fault) ==
    IF fault THEN FALSE ELSE KeyOf(b, j) \in DOMAIN s

\* Mutant of Delete: nothing is removed.
DeleteNothing(b, s, j) == s

\* DataflowStorageImpl::delete: remove the key; removing an absent key succeeds.
Delete(b, s, j) ==
    [k \in DOMAIN s \ {KeyOf(b, j)} |-> s[k]]

\* The Result of save: Ok(()), or SaveDataflowFailed when the store reports an
\* error (map_err); the in-memory save always returns Ok(()).
SaveResult(fault) == IF fault THEN "SaveDataflowFailed" ELSE "Ok"

\* Mutant of DeleteResult: removing a key that is not there is an error.
DeleteResultAbsentFails(b, s, j, fault) ==
    IF fault \/ KeyOf(b, j) \notin DOMAIN s THEN "DeleteDataflowFailed" ELSE "Ok"

\* The Result of delete: Ok(()) whether or not the key was there
\* (.map(|_| {})), or DeleteDataflowFailed when the store reports an error.
DeleteResult(b, s, j, fault) == IF fault THEN "DeleteDataflowFailed" ELSE "Ok"

----------------------------------------------------------------------------
(* Coordinator: coordinator/src/coord.rs *)

\* No Coordinator call in progress.
IdleCur ==
    [op |-> "none", job |-> 0, df |-> NoneV, placed |-> NoneV, avail |-> <<>>,
     existed |-> FALSE, deleted |-> FALSE, saved |-> FALSE, err |-> "",
     storeBefore |-> EmptyStore]

\* A call that starts now, on the storage as it is now.
StartCall(op, j, df, W) ==
    [IdleCur EXCEPT !.op = op, !.job = j, !.df = df, !.avail = W,
                    !.storeBefore = store]

\* The record of a returned call: what it was and what it returned.
Returned(c, res) ==
    [op |-> c.op, job |-> c.job, df |-> c.df, placed |-> c.placed,
     avail |-> c.avail, existed |-> c.existed, deleted |-> c.deleted,
     saved |-> c.saved, storeBefore |-> c.storeBefore, res |-> res]

\* No call has returned yet.
NoCall == Returned(IdleCur, "none")

\* What is kept of a returned call r when the next call starts: what it
\* was, what it returned, and the worker whose create_sub_dataflow failed
\* (from the RPCs it sent, `log`).
Summary(r, log) ==
    [op |-> r.op, job |-> r.job, existed |-> r.existed, res |-> r.res,
     deployFailed |->
        {w \in DOMAIN log :
            \E i \in 1..Len(log[w]) :
                log[w][i].rpc = "create_sub_dataflow" /\ ~log[w][i].ok}]

RpcEntry(rpc, j, nodes, ok) ==
    [rpc |-> rpc, job |-> j, nodes |-> nodes, ok |-> ok]

\* No RPC sent to any of n workers.
NoRpc(n) == [w \in 1..n |-> <<>>]

\* Mutant of ValidateResult: the validation result is not looked at.
ValidateResultIgnored(df) == "Ok"

\* dataflow.validate().map_err(|err| Status::invalid_argument(..))
ValidateResult(df) == IF Validate(df) THEN "Ok" ELSE "InvalidArgument"

\* Mutant of PreemptStep: the submission goes straight to save.
PreemptStepSkipped == "save"

\* create_dataflow, after partition_dataflow: terminate_dataflow(job_id) runs
\* before anything is saved or deployed.
PreemptStep == "terminate"

\* Mutant of AfterMayExists: the job is deleted and stopped in any case.
AfterMayExistsAlways(exists) == "delete"

\* terminate_dataflow: `if !may_exists(job_id) { Ok(Closed) } else { delete .. }`
AfterMayExists(exists) == IF exists THEN "delete" ELSE "closed"

\* Mutant of CreateDataflowReturn: the deployment's result is dropped.
CreateDataflowReturnOk(deployed) == "Ok"

\* create_dataflow's last expression: cluster.create_dataflow(&dataflow).await
\* is returned as it is.
CreateDataflowReturn(deployed) == deployed

\* Mutant of AfterDelete: the broadcast starts whatever delete returned.
AfterDeleteAlwaysBroadcast(res) == "stop"

\* terminate_dataflow: `match delete(job_id).map_err(..)`: Ok goes on to the
\* broadcast, Err is returned as Status::internal.
AfterDelete(res) == IF res = "Ok" THEN "stop" ELSE "Internal"

\* Mutant of AfterSave: the deployment starts whatever save returned.
AfterSaveIgnoringError(res) == "deploy"

\* create_dataflow: `match save(..) { Err(err) => return Err(internal), _ => {} }`.
AfterSave(res) == IF res = "Ok" THEN "deploy" ELSE "Internal"

\* Mutant of SavedDataflow: the dataflow is saved as it was submitted.
SavedDataflowUnplaced(c) == Unwrap(c.df)

\* create_dataflow saves `dataflow.clone()`, the value partition_dataflow
\* was given as `&mut dataflow`.
SavedDataflow(c) == Unwrap(c.placed)

\* Mutant of AfterDeployError: what was saved is taken back.
AfterDeployErrorRollback(b, s, j) == Delete(b, s, j)

\* create_dataflow ends with cluster.create_dataflow(..).await: when the
\* deployment fails nothing is undone, the storage stays as it is.
AfterDeployError(b, s, j) == s

\* The call in progress returns `res` to its caller.
Return(c, res) ==
    /\ last' = Returned(c, res)
    /\ cur' = IdleCur
    /\ pc' = "idle"

\* Mutant of AfterTerminate: create_dataflow saves whatever terminate returned.
AfterTerminateIgnoringError(c, res) ==
    IF c.op = "create"
    THEN /\ cur' = c
         /\ pc' = "save"
         /\ UNCHANGED last
    ELSE Return(c, res)

\* terminate_dataflow returns `res`: to its caller, or into create_dataflow,
\* which gives up on an error (terminate_result.is_err()) and saves otherwise.
AfterTerminate(c, res) ==
    IF c.op = "create" /\ res = "Closed"
    THEN /\ cur' = c
         /\ pc' = "save"
         /\ UNCHANGED last
    ELSE Return(c, res)

CoInit ==
    /\ backend \in {"Memory", "Persist"}
    /\ store = EmptyStore
    /\ nWorkers \in 0..MaxWorkers
    /\ status = [w \in 1..nWorkers |-> "Pending"]
    /\ pc = "idle"
    /\ cur = IdleCur
    /\ pending = {}
    /\ rpcLog = NoRpc(nWorkers)
    /\ nCalls = 0
    /\ last = NoCall
    /\ prev = Summary(NoCall, <<>>)

\* The Coordinator as it is while only a gateway is looked at.
CoQuiet ==
    /\ backend = "Memory"
    /\ store = EmptyStore
    /\ nWorkers = 0
    /\ status = <<>>
    /\ pc = "idle"
    /\ cur = IdleCur
    /\ pending = {}
    /\ rpcLog = <<>>
    /\ nCalls = 0
    /\ last = NoCall
    /\ prev = Summary(NoCall, <<>>)

\* Coordinator::create_dataflow(dataflow), up to the call of terminate_dataflow:
\* validate, then partition_dataflow, whose outcome is not looked at.
CreateDataflow(df) ==
    /\ pc = "idle"
    /\ nCalls < MaxCalls
    /\ nCalls' = nCalls + 1
    /\ LET W == AvailableWorkers(nWorkers, status)
           c == StartCall("create", JobOf(df), Some(df), W)
       IN  IF ValidateResult(df) # "Ok"
           THEN /\ Return(c, ValidateResult(df))
           ELSE /\ cur' = [c EXCEPT !.placed = Some(PartitionDataflow(df, W))]
                /\ pc' = PreemptStep
                /\ UNCHANGED last
    /\ prev' = Summary(last, rpcLog)
    /\ rpcLog' = NoRpc(nWorkers)
    /\ UNCHANGED <<backend, store, nWorkers, status, pending>>
    /\ UNCHANGED <<gwVars, stVars, mkVars, rcVars>>

\* Coordinator::terminate_dataflow(job_id), called by a client.
TerminateDataflow(j) ==
    /\ pc = "idle"
    /\ nCalls < MaxCalls
    /\ nCalls' = nCalls + 1
    /\ cur' = StartCall("terminate", j, NoneV, <<>>)
    /\ pc' = "terminate"
    /\ prev' = Summary(last, rpcLog)
    /\ rpcLog' = NoRpc(nWorkers)
    /\ UNCHANGED <<backend, store, nWorkers, status, pending, last>>
    /\ UNCHANGED <<gwVars, stVars, mkVars, rcVars>>

\* terminate_dataflow: the may_exists test.
CheckMayExists ==
    /\ pc = "terminate"
    /\ \E fault \in Faults(backend) :
         LET ex == MayExists(backend, store, cur.job, fault)
             c == [cur EXCEPT !.existed = ex]
         IN  IF AfterMayExists(ex) = "delete"
             THEN /\ cur' = c
                  /\ pc' = "delete"
                  /\ UNCHANGED last
             ELSE AfterTerminate(c, "Closed")
    /\ UNCHANGED <<backend, store, nWorkers, status, pending, rpcLog, nCalls, prev>>
    /\ UNCHANGED <<gwVars, stVars, mkVars, rcVars>>

\* terminate_dataflow: dataflow_storage.delete(job_id); on Ok the broadcast
\* cluster.terminate_dataflow(job_id) starts, on Err the error is returned.
DeleteStep ==
    /\ pc = "delete"
    /\ \E fault \in Faults(backend) :
         LET res == DeleteResult(backend, store, cur.job, fault)
         IN  /\ store' = IF fault THEN store ELSE Delete(backend, store, cur.job)
             /\ IF AfterDelete(res) = "stop"
                THEN /\ cur' = [cur EXCEPT !.deleted = ~fault]
                     /\ pc' = "stop"
                     /\ pending' = BroadcastTargets(nWorkers)
                     /\ UNCHANGED last
                ELSE /\ AfterTerminate(cur, AfterDelete(res))
                     /\ UNCHANGED pending
    /\ UNCHANGED <<backend, nWorkers, status, rpcLog, nCalls, prev>>
    /\ UNCHANGED <<gwVars, stVars, mkVars, rcVars>>

\* Cluster::terminate_dataflow: stop_dataflow(job_id) goes to one more worker;
\* a failure is collected and does not stop the broadcast.
StopRpc(w) ==
    /\ pc = "stop"
    /\ w \in pending
    /\ \E ok \in BOOLEAN :
         /\ rpcLog' = [rpcLog EXCEPT
                ![w] = Append(@, RpcEntry("stop_dataflow", cur.job, <<>>, ok))]
         /\ cur' = IF ok \/ cur.err # "" THEN cur
                   ELSE [cur EXCEPT !.err = "Unavailable"]
    /\ pending' = pending \ {w}
    /\ UNCHANGED <<backend, store, nWorkers, status, pc, nCalls, last, prev>>
    /\ UNCHANGED <<gwVars, stVars, mkVars, rcVars>>

\* Cluster::terminate_dataflow returns: Closed, or the first error collected.
StopReturn ==
    /\ pc = "stop"
    /\ pending = {}
    /\ AfterTerminate([cur EXCEPT !.err = ""],
                      IF cur.err = "" THEN "Closed" ELSE cur.err)
    /\ UNCHANGED <<backend, store, nWorkers, status, pending, rpcLog, nCalls, prev>>
    /\ UNCHANGED <<gwVars, stVars, mkVars, rcVars>>

\* create_dataflow: dataflow_storage.save(dataflow.clone()); an Err is returned
\* as Status::internal, on Ok cluster.create_dataflow(&dataflow) starts.
SaveStep ==
    /\ pc = "save"
    /\ \E fault \in Faults(backend) :
         LET res == SaveResult(fault)
         IN  /\ store' = IF fault THEN store
                         ELSE Save(backend, store, SavedDataflow(cur))
             /\ IF AfterSave(res) = "deploy"
                THEN /\ cur' = [cur EXCEPT !.saved = ~fault]
                     /\ pc' = "deploy"
                     /\ pending' = Hosts(Unwrap(cur.placed))
                     /\ UNCHANGED last
                ELSE /\ Return(cur, AfterSave(res))
                     /\ UNCHANGED pending
    /\ UNCHANGED <<backend, nWorkers, status, rpcLog, nCalls, prev>>
    /\ UNCHANGED <<gwVars, stVars, mkVars, rcVars>>

\* Cluster::create_dataflow: create_sub_dataflow goes to one more hosting
\* worker; the first failure is returned at once.
CreateSubRpc(w) ==
    /\ pc = "deploy"
    /\ w \in pending
    /\ \E ok \in BOOLEAN :
         /\ rpcLog' = [rpcLog EXCEPT
                ![w] = Append(@, RpcEntry("create_sub_dataflow", cur.job,
                                  SubDataflowNodes(Unwrap(cur.placed), w), ok))]
         /\ IF ok
            THEN /\ pending' = pending \ {w}
                 /\ UNCHANGED <<store, pc, cur, last>>
            ELSE /\ Return(cur, CreateDataflowReturn("Unavailable"))
                 /\ store' = AfterDeployError(backend, store, cur.job)
                 /\ pending' = {}
    /\ UNCHANGED <<backend, nWorkers, status, nCalls, prev>>
    /\ UNCHANGED <<gwVars, stVars, mkVars, rcVars>>

\* Cluster::create_dataflow returns Ok: every hosting worker accepted.
DeployReturn ==
    /\ pc = "deploy"
    /\ pending = {}
    /\ Return(cur, CreateDataflowReturn("Ok"))
    /\ UNCHANGED <<backend, store, nWorkers, status, pending, rpcLog, nCalls, prev>>
    /\ UNCHANGED <<gwVars, stVars, mkVars, rcVars>>

\* Coordinator::probe_state: a heartbeat to each worker; Running on success,
\* Unreachable on failure.
ProbeState ==
    /\ pc = "idle"
    /\ nCalls < MaxCalls
    /\ nCalls' = nCalls + 1
    /\ \E up \in [1..nWorkers -> BOOLEAN] :
         status' = [w \in 1..nWorkers |->
                        IF up[w] THEN "Running" ELSE "Unreachable"]
    /\ UNCHANGED <<backend, store, nWorkers, pc, cur, pending, rpcLog, last, prev>>
    /\ UNCHANGED <<gwVars, stVars, mkVars, rcVars>>

Next ==
    \/ \E df \in Submissions : CreateDataflow(df)
    \/ \E j \in JobIds : TerminateDataflow(j)
    \/ CheckMayExists
    \/ DeleteStep
    \/ \E w \in 1..nWorkers : StopRpc(w)
    \/ StopReturn
    \/ SaveStep
    \/ \E w \in 1..nWorkers : CreateSubRpc(w)
    \/ DeployReturn
    \/ ProbeState

----------------------------------------------------------------------------
(* Two concurrent submissions on one Coordinator: coordinator/src/coord.rs  *)
(* Both create_dataflow calls work on the Coordinator's one storage and one *)
(* cluster and interleave at their suspension points: every storage         *)
(* operation and every worker RPC is one step.                              *)

Submitters == {1, 2}

\* The jobs the two submissions are for.
RaceJobs == 1..NumRaceJobs

\* A submission that has not run yet.
NewSubmission(df) ==
    [pc |-> "start", df |-> Some(df), job |-> JobOf(df), placed |-> NoneV,
     mayFault |-> FALSE, delFault |-> FALSE, saveFault |-> FALSE,
     saveRan |-> FALSE, raced |-> FALSE,
     pending |-> {}, err |-> "", rpcs |-> {}, res |-> "none"]

\* An RPC sent to worker w; afterDeploy: a create_sub_dataflow of the same
\* job had already been sent, by either submission, when this one was sent.
WorkerRpc(w, entry, after) == [w |-> w, entry |-> entry, afterDeploy |-> after]

\* Some create_sub_dataflow for job j has been sent.
DeployBegun(j) ==
    \E u \in Submitters : \E x \in subs[u].rpcs :
        x.entry.rpc = "create_sub_dataflow" /\ x.entry.job = j

\* terminate_dataflow returns `res` into create_dataflow, which gives up on an
\* error and goes on to save otherwise; `raced`: no submission had run its
\* save when this one got past terminate_dataflow.
SubmissionAfterTerminate(c, res) ==
    IF res = "Closed"
    THEN [c EXCEPT !.pc = "save", !.err = "",
                   !.raced = \A u \in Submitters : ~subs[u].saveRan]
    ELSE [c EXCEPT !.pc = "done", !.err = "", !.res = res]

\* The Coordinator with two submissions handed to it: a Chain and a Pair,
\* each for some job; each of these jobs may have been stored before.
RaceCoInit ==
    /\ backend \in {"Memory", "Persist"}
    /\ nWorkers \in 1..MaxWorkers
    /\ status = [w \in 1..nWorkers |-> "Pending"]
    /\ pc = "idle"
    /\ cur = IdleCur
    /\ pending = {}
    /\ rpcLog = NoRpc(nWorkers)
    /\ nCalls = 0
    /\ last = NoCall
    /\ prev = Summary(NoCall, <<>>)
    /\ \E j1, j2 \in RaceJobs :
         /\ subs = [t \in Submitters |->
                        NewSubmission(IF t = 1 THEN Chain(j1) ELSE Pair(j2))]
         /\ \E old \in SUBSET {j1, j2} :
              store = [k \in {KeyOf(backend, j) : j \in old} |->
                          ValueOf(backend,
                                  PartitionDataflow(Chain(CHOOSE j \in old :
                                                        KeyOf(backend, j) = k),
                                                    WorkerList(nWorkers)))]
    /\ store0 = store

\* No concurrent submissions.
RaceQuiet ==
    /\ subs = <<>>
    /\ store0 = EmptyStore

coRaceIdle == <<backend, nWorkers, status, pc, cur, pending, rpcLog, nCalls,
                last, prev>>

\* create_dataflow up to the call of terminate_dataflow: validate, then
\* partition_dataflow.
SubmissionStart(t) ==
    /\ subs[t].pc = "start"
    /\ LET c == subs[t]
           df == Unwrap(c.df)
           W == AvailableWorkers(nWorkers, status)
       IN  subs' = [subs EXCEPT ![t] =
                IF ValidateResult(df) # "Ok"
                THEN [c EXCEPT !.pc = "done", !.res = ValidateResult(df)]
                ELSE [c EXCEPT !.pc = PreemptStep,
                               !.placed = Some(PartitionDataflow(df, W))]]
    /\ UNCHANGED <<store, store0, coRaceIdle>>
    /\ UNCHANGED <<gwVars, stVars, mkVars>>

\* terminate_dataflow: the may_exists test.
SubmissionCheckMayExists(t) ==
    /\ subs[t].pc = "terminate"
    /\ \E fault \in Faults(backend) :
         LET c == [subs[t] EXCEPT !.mayFault = fault]
             ex == MayExists(backend, store, c.job, fault)
         IN  subs' = [subs EXCEPT ![t] =
                  IF AfterMayExists(ex) = "delete"
                  THEN [c EXCEPT !.pc = "delete"]
                  ELSE SubmissionAfterTerminate(c, "Closed")]
    /\ UNCHANGED <<store, store0, coRaceIdle>>
    /\ UNCHANGED <<gwVars, stVars, mkVars>>

\* terminate_dataflow: dataflow_storage.delete(job_id).
SubmissionDelete(t) ==
    /\ subs[t].pc = "delete"
    /\ \E fault \in Faults(backend) :
         LET c == [subs[t] EXCEPT !.delFault = fault]
             res == DeleteResult(backend, store, c.job, fault)
         IN  /\ store' = IF fault THEN store ELSE Delete(backend, store, c.job)
             /\ subs' = [subs EXCEPT ![t] =
                    IF AfterDelete(res) = "stop"
                    THEN [c EXCEPT !.pc = "stop",
                                   !.pending = BroadcastTargets(nWorkers)]
                    ELSE SubmissionAfterTerminate(c, AfterDelete(res))]
    /\ UNCHANGED <<store0, coRaceIdle>>
    /\ UNCHANGED <<gwVars, stVars, mkVars>>

\* Cluster::terminate_dataflow: stop_dataflow(job_id) goes to one more worker.
SubmissionStopRpc(t, w) ==
    /\ subs[t].pc = "stop"
    /\ w \in subs[t].pending
    /\ \E ok \in BOOLEAN :
         subs' = [subs EXCEPT ![t] =
            [@ EXCEPT !.pending = @ \ {w},
                      !.err = IF ok \/ @ # "" THEN @ ELSE "Unavailable",
                      !.rpcs = @ \cup
                         {WorkerRpc(w, RpcEntry("stop_dataflow", subs[t].job, <<>>, ok),
                                    DeployBegun(subs[t].job))}]]
    /\ UNCHANGED <<store, store0, coRaceIdle>>
    /\ UNCHANGED <<gwVars, stVars, mkVars>>

\* Cluster::terminate_dataflow returns: Closed, or the first error collected.
SubmissionStopReturn(t) ==
    /\ subs[t].pc = "stop"
    /\ subs[t].pending = {}
    /\ subs' = [subs EXCEPT ![t] =
            SubmissionAfterTerminate(subs[t],
                IF subs[t].err = "" THEN "Closed" ELSE subs[t].err)]
    /\ UNCHANGED <<store, store0, coRaceIdle>>
    /\ UNCHANGED <<gwVars, stVars, mkVars>>

\* create_dataflow: dataflow_storage.save(dataflow.clone()).
SubmissionSave(t) ==
    /\ subs[t].pc = "save"
    /\ \E fault \in Faults(backend) :
         LET c == [subs[t] EXCEPT !.saveFault = fault, !.saveRan = TRUE]
             res == SaveResult(fault)
         IN  /\ store' = IF fault THEN store
                         ELSE Save(backend, store, SavedDataflow(c))
             /\ subs' = [subs EXCEPT ![t] =
                    IF AfterSave(res) = "deploy"
                    THEN [c EXCEPT !.pc = "deploy",
                                   !.pending = Hosts(Unwrap(c.placed))]
                    ELSE [c EXCEPT !.pc = "done", !.res = AfterSave(res)]]
    /\ UNCHANGED <<store0, coRaceIdle>>
    /\ UNCHANGED <<gwVars, stVars, mkVars>>

\* Cluster::create_dataflow: create_sub_dataflow goes to one more hosting
\* worker; the first failure is returned at once.
SubmissionCreateSubRpc(t, w) ==
    /\ subs[t].pc = "deploy"
    /\ w \in subs[t].pending
    /\ \E ok \in BOOLEAN :
         LET c == [subs[t] EXCEPT !.rpcs = @ \cup
                      {WorkerRpc(w, RpcEntry("create_sub_dataflow", subs[t].job,
                                    SubDataflowNodes(Unwrap(subs[t].placed), w), ok),
                                 DeployBegun(subs[t].job))}]
         IN  /\ subs' = [subs EXCEPT ![t] =
                    IF ok THEN [c EXCEPT !.pending = @ \ {w}]
                    ELSE [c EXCEPT !.pc = "done", !.pending = {},
                                   !.res = CreateDataflowReturn("Unavailable")]]
             /\ store' = IF ok THEN store
                         ELSE AfterDeployError(backend, store, subs[t].job)
    /\ UNCHANGED <<store0, coRaceIdle>>
    /\ UNCHANGED <<gwVars, stVars, mkVars>>

\* Cluster::create_dataflow returns Ok: every hosting worker accepted.
SubmissionDeployReturn(t) ==
    /\ subs[t].pc = "deploy"
    /\ subs[t].pending = {}
    /\ subs' = [subs EXCEPT ![t] =
            [@ EXCEPT !.pc = "done", !.res = CreateDataflowReturn("Ok")]]
    /\ UNCHANGED <<store, store0, coRaceIdle>>
    /\ UNCHANGED <<gwVars, stVars, mkVars>>

RaceNext ==
    \E t \in Submitters :
        \/ SubmissionStart(t)
        \/ SubmissionCheckMayExists(t)
        \/ SubmissionDelete(t)
        \/ \E w \in 1..nWorkers : SubmissionStopRpc(t, w)
        \/ SubmissionStopReturn(t)
        \/ SubmissionSave(t)
        \/ \E w \in 1..nWorkers : SubmissionCreateSubRpc(t, w)
        \/ SubmissionDeployReturn(t)

\* The RPCs of a submission, as sent: worker and request.
SentRpcs(c) == {[w |-> x.w, entry |-> x.entry] : x \in c.rpcs}

\* What the workers answered to submission c: whether stop_dataflow on w
\* succeeded, and the create_sub_dataflow calls that were answered.
StopAnswer(c, w) ==
    \A x \in c.rpcs : (x.w = w /\ x.entry.rpc = "stop_dataflow") => x.entry.ok

CreateAnswers(c) ==
    {[w |-> x.w, ok |-> x.entry.ok] :
        x \in {y \in c.rpcs : y.entry.rpc = "create_sub_dataflow"}}

\* create_dataflow(df) run alone, from start to return, on store s with n
\* workers, given the store's faults and the workers' answers that
\* submission c met: the store it leaves, the RPCs it sends, its result.
RunAlone(b, s, n, c) ==
    LET df == Unwrap(c.df)
        j == JobOf(df)
        W == AvailableWorkers(n, [w \in 1..n |-> "Pending"])
        placed == PartitionDataflow(df, W)
        ex == MayExists(b, s, j, c.mayFault)
        del == AfterMayExists(ex) = "delete"
        s1 == IF del /\ ~c.delFault THEN Delete(b, s, j) ELSE s
        delRes == IF del THEN AfterDelete(DeleteResult(b, s, j, c.delFault))
                  ELSE "stop"
        stops == IF del /\ delRes = "stop"
                 THEN {[w |-> w,
                        entry |-> RpcEntry("stop_dataflow", j, <<>>, StopAnswer(c, w))]
                       : w \in BroadcastTargets(n)}
                 ELSE {}
        stopped == \A x \in stops : x.entry.ok
        s2 == IF c.saveFault THEN s1 ELSE Save(b, s1, placed)
        creates == {[w |-> a.w,
                     entry |-> RpcEntry("create_sub_dataflow", j,
                                        SubDataflowNodes(placed, a.w), a.ok)]
                    : a \in CreateAnswers(c)}
    IN  IF ValidateResult(df) # "Ok"
        THEN [store |-> s, rpcs |-> {}, res |-> ValidateResult(df)]
        ELSE IF delRes # "stop"
        THEN [store |-> s1, rpcs |-> {}, res |-> delRes]
        ELSE IF ~stopped
        THEN [store |-> s1, rpcs |-> stops, res |-> "Unavailable"]
        ELSE IF AfterSave(SaveResult(c.saveFault)) # "deploy"
        THEN [store |-> s2, rpcs |-> stops,
              res |-> AfterSave(SaveResult(c.saveFault))]
        ELSE [store |-> s2, rpcs |-> stops \cup creates,
              res |-> IF \A a \in CreateAnswers(c) : a.ok
                      THEN CreateDataflowReturn("Ok")
                      ELSE CreateDataflowReturn("Unavailable")]

----------------------------------------------------------------------------
(* Dataflow storage used on its own: coordinator/src/coord.rs *)

\* Job ids given to the storage: the default ResourceId (0) and the jobs.
StorageJobs == 0..NumJobs

\* Dataflows given to save: unplaced and placed ones, two operator sets.
StorageDataflows ==
    UNION {{Dataflow(Some(j), <<1, 2>>, << <<1, 2>> >>),
            Dataflow(Some(j), <<1, 2, 3>>, << <<1, 2>>, <<2, 3>> >>),
            PartitionDataflow(Dataflow(Some(j), <<1, 2, 3>>,
                                       << <<1, 2>>, <<2, 3>> >>), <<1, 2>>)}
           : j \in StorageJobs}

StorageOp(op, j, df, fault, res) ==
    [op |-> op, job |-> j, df |-> df, fault |-> fault, res |-> res,
     before |-> store]

NoStorageOp ==
    [op |-> "none", job |-> 0, df |-> NoneV, fault |-> FALSE, res |-> "none",
     before |-> EmptyStore]

StorageSummary(o) == [op |-> o.op, job |-> o.job, res |-> o.res]

\* The storage has just been made (to_dataflow_storage) and is empty.
StInit ==
    /\ shadow = [j \in StorageJobs |-> NoneV]
    /\ stLast = NoStorageOp
    /\ stPrev = StorageSummary(NoStorageOp)

\* The storage operations as they are while the storage is not used on its own.
StQuiet ==
    /\ shadow = <<>>
    /\ stLast = NoStorageOp
    /\ stPrev = StorageSummary(NoStorageOp)

coIdleVars == <<backend, nWorkers, status, pc, cur, pending, rpcLog, nCalls,
                last, prev>>

\* DataflowStorageImpl::save(dataflow)
StorageSave(df) ==
    /\ \E fault \in Faults(backend) :
         /\ store' = IF fault THEN store ELSE Save(backend, store, df)
         /\ shadow' = IF SaveResult(fault) = "Ok"
                      THEN [shadow EXCEPT ![JobOf(df)] = Some(df)]
                      ELSE shadow
         /\ stLast' = StorageOp("save", JobOf(df), Some(df), fault, SaveResult(fault))
    /\ stPrev' = StorageSummary(stLast)
    /\ UNCHANGED <<coIdleVars, gwVars, mkVars, rcVars>>

\* DataflowStorageImpl::get(job_id)
StorageGet(j) ==
    /\ \E fault \in Faults(backend) :
         stLast' = StorageOp("get", j, NoneV, fault, Get(backend, store, j, fault))
    /\ stPrev' = StorageSummary(stLast)
    /\ UNCHANGED <<coIdleVars, store, shadow, gwVars, mkVars, rcVars>>

\* DataflowStorageImpl::may_exists(job_id)
StorageMayExists(j) ==
    /\ \E fault \in Faults(backend) :
         stLast' = StorageOp("may_exists", j, NoneV, fault,
                             MayExists(backend, store, j, fault))
    /\ stPrev' = StorageSummary(stLast)
    /\ UNCHANGED <<coIdleVars, store, shadow, gwVars, mkVars, rcVars>>

\* DataflowStorageImpl::delete(job_id)
StorageDelete(j) ==
    /\ \E fault \in Faults(backend) :
         LET res == DeleteResult(backend, store, j, fault)
         IN  /\ store' = IF fault THEN store ELSE Delete(backend, store, j)
             /\ shadow' = IF res = "Ok" THEN [shadow EXCEPT ![j] = NoneV]
                          ELSE shadow
             /\ stLast' = StorageOp("delete", j, NoneV, fault, res)
    /\ stPrev' = StorageSummary(stLast)
    /\ UNCHANGED <<coIdleVars, gwVars, mkVars, rcVars>>

StorageNext ==
    \/ \E df \in StorageDataflows : StorageSave(df)
    \/ \E j \in StorageJobs : StorageGet(j)
    \/ \E j \in StorageJobs : StorageMayExists(j)
    \/ \E j \in StorageJobs : StorageDelete(j)

----------------------------------------------------------------------------
(* MockRpcGateway: common/src/net/gateway.rs *)

\* The Ack of the i-th receive_ack call.
AckOf(i) == i

\* One receive_ack call: where it stands, what it returned, how many times
\* its ack was put in the queue, and whether the receiver was already
\* dropped when it was made.
MockCall(st, res) ==
    [state |-> st, result |-> res, pushes |-> 0, rxGone |-> ~mkRxOpen]

\* Mutant of SendResult: receive_ack returns Ok whatever send returned.
SendResultAlwaysOk(sent) == "Ok"

\* .map(|_| Response::ok()).map_err(|err| Status::data_loss(..)): Ok when
\* send returned Ok, DataLoss when it returned "receiver dropped".
SendResult(sent) == IF sent THEN "Ok" ELSE "DataLoss"

\* Slots of the bounded channel that are neither filled nor promised to a call.
FreeSlots ==
    mkCap - Len(mkQueue)
          - Cardinality({i \in 1..Len(mkCalls) : mkCalls[i].state = "permitted"})

\* Mutant of NextPermit: the slot goes to the caller that asked last.
NextPermitNewest(ws) ==
    IF ws = <<>> THEN <<0, <<>>>>
    ELSE <<ws[Len(ws)], SubSeq(ws, 1, Len(ws) - 1)>>

\* ack_channel.send(req).await: a slot freed by the receiver goes to the
\* call that has waited longest for one.
NextPermit(ws) ==
    IF ws = <<>> THEN <<0, <<>>>> ELSE <<Head(ws), Tail(ws)>>

\* MockRpcGateway::new(ack_buf_size, heartbeat_buf_size): an empty ack queue
\* of the given capacity and its receiver.
MkInit ==
    /\ mkCap \in 1..MaxAckBuf
    /\ mkQueue = <<>>
    /\ mkWaiters = <<>>
    /\ mkCalls = <<>>
    /\ mkRecv = <<>>
    /\ mkRxOpen = TRUE

\* No mock gateway is looked at.
MkQuiet ==
    /\ mkCap = 0
    /\ mkQueue = <<>>
    /\ mkWaiters = <<>>
    /\ mkCalls = <<>>
    /\ mkRecv = <<>>
    /\ mkRxOpen = FALSE

\* MockRpcGateway::receive_ack(req), up to the first poll of send: the call
\* fails when the receiver is gone, is promised a slot when one is free and
\* nobody waits, and queues for one otherwise.
MockReceiveAck ==
    /\ mkCap > 0
    /\ Len(mkCalls) < MaxAcks
    /\ IF ~mkRxOpen
       THEN /\ mkCalls' = Append(mkCalls, MockCall("done", SendResult(FALSE)))
            /\ UNCHANGED mkWaiters
       ELSE IF FreeSlots > 0 /\ mkWaiters = <<>>
       THEN /\ mkCalls' = Append(mkCalls, MockCall("permitted", ""))
            /\ UNCHANGED mkWaiters
       ELSE /\ mkCalls' = Append(mkCalls, MockCall("waiting", ""))
            /\ mkWaiters' = Append(mkWaiters, Len(mkCalls) + 1)
    /\ UNCHANGED <<mkCap, mkQueue, mkRecv, mkRxOpen>>
    /\ UNCHANGED <<gwVars, coVars, stVars, rcVars>>

\* send completes: the call that was promised a slot puts its ack in it and
\* returns Ok (.map(|_| Response::ok())). After the receiver was dropped the
\* ack is not kept.
MockSend(i) ==
    /\ mkCalls[i].state = "permitted"
    /\ mkCalls' = [mkCalls EXCEPT ![i].state = "done",
                                  ![i].result = SendResult(TRUE),
                                  ![i].pushes = @ + 1]
    /\ mkQueue' = IF mkRxOpen THEN Append(mkQueue, AckOf(i)) ELSE mkQueue
    /\ UNCHANGED <<mkCap, mkWaiters, mkRecv, mkRxOpen>>
    /\ UNCHANGED <<gwVars, coVars, stVars, rcVars>>

\* The receiver takes the oldest ack (ack_rx.recv()); the slot it frees is
\* promised to the next waiting call.
MockRecv ==
    /\ mkRxOpen
    /\ mkQueue # <<>>
    /\ mkRecv' = Append(mkRecv, Head(mkQueue))
    /\ mkQueue' = Tail(mkQueue)
    /\ LET n == NextPermit(mkWaiters)
       IN  /\ mkWaiters' = n[2]
           /\ mkCalls' = IF n[1] = 0 THEN mkCalls
                         ELSE [mkCalls EXCEPT ![n[1]].state = "permitted"]
    /\ UNCHANGED <<mkCap, mkRxOpen>>
    /\ UNCHANGED <<gwVars, coVars, stVars, rcVars>>

\* The Receiver<Ack> is dropped: buffered acks are discarded and every
\* waiting send fails, which receive_ack maps to Status::data_loss.
MockDropReceiver ==
    /\ mkRxOpen
    /\ mkRxOpen' = FALSE
    /\ mkQueue' = <<>>
    /\ mkWaiters' = <<>>
    /\ mkCalls' = [i \in 1..Len(mkCalls) |->
                      IF mkCalls[i].state = "waiting"
                      THEN [mkCalls[i] EXCEPT !.state = "done",
                                              !.result = SendResult(FALSE)]
                      ELSE mkCalls[i]]
    /\ UNCHANGED <<mkCap, mkRecv>>
    /\ UNCHANGED <<gwVars, coVars, stVars, rcVars>>

MockNext ==
    \/ MockReceiveAck
    \/ \E i \in 1..Len(mkCalls) : MockSend(i)
    \/ MockRecv
    \/ MockDropReceiver

----------------------------------------------------------------------------
(* Specifications *)

Init == GwInit /\ CoInit /\ StQuiet /\ MkQuiet /\ RaceQuiet

Spec == Init /\ [][Next]_vars

GatewayInit == GwInit /\ CoQuiet /\ StQuiet /\ MkQuiet /\ RaceQuiet

GatewaySpec == GatewayInit /\ [][GwNext]_vars

\* The worker gateway (SafeTaskManagerRpcGateway::new) with task
\* cancellation. The executor polls a task that was given the token, so a
\* call that holds it goes on to its transport call.
GwCancelNext ==
    \/ WorkerNew
    \/ Invoke
    \/ \E i \in 1..Len(calls) : BeginTransport(i)
    \/ \E i \in 1..Len(calls) : Respond(i)
    \/ \E i \in 1..Len(calls) : Cancel(i)

BeginSome == \E i \in 1..Len(calls) : BeginTransport(i)

CancelSpec == GatewayInit /\ [][GwCancelNext]_vars /\ WF_vars(BeginSome)

StorageInit == GwInit /\ CoInit /\ nWorkers = 0 /\ StInit /\ MkQuiet /\ RaceQuiet

StorageSpec == StorageInit /\ [][StorageNext]_vars

MockInit == GwInit /\ CoQuiet /\ StQuiet /\ MkInit /\ RaceQuiet

MockSpec == MockInit /\ [][MockNext]_vars

RaceInit == GwInit /\ RaceCoInit /\ StQuiet /\ MkQuiet

RaceSpec == RaceInit /\ [][RaceNext]_vars

----------------------------------------------------------------------------
(* Gateway claims *)

Inflight == {i \in 1..Len(calls) : calls[i].state = "inflight"}

Begun == {i \in 1..Len(calls) : calls[i].state \in {"inflight", "done"}}

\* C1: on one gateway (all clones share `inner`) at most one RPC is
\* outstanding on the transport, whatever typed method is called: a call is
\* in flight only while it owns the per-peer token, which it took before its
\* transport call and keeps until the response or error is returned.
C1_AtMostOneOutstanding ==
    /\ Cardinality(Inflight) <= 1
    /\ \A i \in Inflight :
         /\ holder = i
         /\ calls[i].method \in Methods(gwKind)
    /\ \A i \in 1..Len(calls) :
         calls[i].state = "locked" => holder = i

\* C1 witness: one call is in flight while another call queues on the token.
C1_Witness ==
    \E i, j \in 1..Len(calls) :
        /\ calls[i].state = "inflight"
        /\ calls[j].state = "waiting"

\* C2: calls are served in the order in which they requested the token: a
\* call has begun its transport call only if every call that requested the
\* token before it has already completed or errored.
C2_FifoOrder ==
    \A i, j \in 1..Len(calls) :
        (i < j /\ j \in Begun) => calls[i].state = "done"

\* C2 witness: two calls queued behind a third; the first of them is now in
\* flight while the later one still waits.
C2_Witness ==
    \E i, j, k \in 1..Len(calls) :
        /\ i < j /\ j < k
        /\ calls[i].state = "done"
        /\ calls[j].state = "inflight" /\ calls[j].queued
        /\ calls[k].state = "waiting"

\* C3: the first call issued after close() creates a new channel instead of
\* reusing the one cached before close().
C3_CloseForcesReconnect ==
    \A i \in Begun : calls[i].afterClose => calls[i].fresh

C5_ErrorKeepsChannel ==
    \A i \in 1..Len(calls) :
        calls[i].result = "err" =>
            /\ IsSome(inner)
            /\ Unwrap(inner).id = calls[i].chan
            /\ \A j \in Begun :
                 i < j => (calls[j].chan = calls[i].chan /\ ~calls[j].fresh)

\* C5 witness: a call failed and a later call went out on the same channel.
C5_Witness ==
    \E i, j \in 1..Len(calls) :
        /\ i < j
        /\ calls[i].result = "err"
        /\ j \in Begun
        /\ calls[j].chan = calls[i].chan

\* Call j was queued, now holds the token, and a call before it was
\* cancelled in the middle of its transport call.
TokenAfterCancel(j) ==
    /\ j <= Len(calls)
    /\ calls[j].state = "locked" /\ calls[j].queued
    /\ \E i \in 1..(j - 1) : calls[i].state = "cancelled" /\ calls[i].chan # 0

\* Call j has begun its transport call, or was itself cancelled.
BegunOrCancelled(j) ==
    /\ j <= Len(calls)
    /\ calls[j].state \in {"inflight", "done", "cancelled"}

\* C23: cancelling a call releases the token. The token is never held by a
\* call that was cancelled or has returned, and never free while a call is
\* queued for it; when the holder is cancelled the longest-waiting queued
\* call is given the token in that step; and a queued call that holds the
\* token after a call was cancelled mid-RPC eventually begins its transport
\* call (unless it is cancelled itself).
C23_CancelReleasesToken ==
    /\ [](holder # 0 => calls[holder].state \in {"locked", "inflight"})
    /\ [](waiters # <<>> => holder # 0)
    /\ [][\A i \in 1..Len(calls) :
            (/\ holder = i
             /\ calls'[i].state = "cancelled"
             /\ waiters # <<>>) =>
                (holder' = Head(waiters) /\ calls'[Head(waiters)].state = "locked")]_vars
    /\ \A j \in 1..MaxGwCalls : TokenAfterCancel(j) ~> BegunOrCancelled(j)

\* C23 witness: a call was cancelled in the middle of its transport call and
\* a call that was queued behind it is now in its own transport call.
C23_Witness ==
    \E i, j \in 1..Len(calls) :
        /\ i < j
        /\ calls[i].state = "cancelled" /\ calls[i].chan # 0
        /\ calls[j].queued
        /\ calls[j].state = "inflight"

----------------------------------------------------------------------------
(* Coordinator claims *)

\* No stop or create_sub_dataflow RPC was sent by the current (last) call.
NoRpcSent == \A w \in 1..nWorkers : rpcLog[w] = <<>>

StoreUnchanged == store = last.storeBefore

\* What get_dataflow(j) reads from the storage (no read error).
Stored(s, j) == Get(backend, s, j, FALSE)

Sent(w, rpc) == {i \in 1..Len(rpcLog[w]) : rpcLog[w][i].rpc = rpc}

FailedRpc(rpc) ==
    \E w \in 1..nWorkers : \E i \in Sent(w, rpc) : ~rpcLog[w][i].ok

\* Worker w was sent a successful stop(j) before every create_sub_dataflow
\* the call sent to it.
StopBeforeCreate(w, j) ==
    \E i \in Sent(w, "stop_dataflow") :
        /\ rpcLog[w][i].job = j
        /\ rpcLog[w][i].ok
        /\ \A k \in Sent(w, "create_sub_dataflow") : i < k

LastIs(op) == pc = "idle" /\ last.op = op

\* C6: terminate_dataflow(job_id) on a job for which may_exists is false
\* returns Closed at once, sends no RPC and leaves the storage as it was; it
\* reaches the delete and the broadcast only for a job that may exist. In
\* particular, once a terminate(J) has found J and deleted it, the terminate(J)
\* that follows it returns Closed with no RPC.
C6_TerminateUnknownIsNoOp ==
    /\ (LastIs("terminate") /\ ~last.existed) =>
            (last.res = "Closed" /\ NoRpcSent /\ StoreUnchanged)
    /\ (cur.op = "terminate" /\ pc \in {"delete", "stop"}) => cur.existed
    /\ (/\ LastIs("terminate")
        /\ prev.op = "terminate" /\ prev.job = last.job
        /\ prev.existed /\ prev.res # "Internal") =>
            (last.res = "Closed" /\ NoRpcSent /\ StoreUnchanged)

\* C6 witness: J was stored, a first terminate(J) found it and returned
\* Closed, and a second terminate(J) has returned Closed without any RPC on
\* a cluster that has workers.
C6_Witness ==
    /\ LastIs("terminate")
    /\ ~last.existed /\ last.res = "Closed"
    /\ prev.op = "terminate" /\ prev.job = last.job
    /\ prev.existed /\ prev.res = "Closed"
    /\ nWorkers = MaxWorkers
    /\ NoRpcSent

\* C7: create_dataflow of a valid dataflow when no worker is available for
\* placement fails with NoAvailableWorker, leaves the storage as it was and
\* sends no RPC. Stated for the in-memory backend, whose storage cannot fail.
C7_NoWorkerNoSideEffects ==
    (/\ backend = "Memory"
     /\ LastIs("create")
     /\ Validate(Unwrap(last.df))
     /\ last.avail = <<>>) =>
        (last.res = "NoAvailableWorker" /\ StoreUnchanged /\ NoRpcSent)

\* C8: create_dataflow of a dataflow that fails validate returns the
\* invalid-dataflow error, does not partition it, leaves the storage as it
\* was (a prior incarnation is neither deleted nor overwritten) and sends no
\* RPC; only a validated dataflow gets past the first step.
C8_InvalidNoSideEffects ==
    /\ (LastIs("create") /\ ~Validate(Unwrap(last.df))) =>
            /\ last.res = "InvalidArgument"
            /\ last.placed = NoneV
            /\ ~last.deleted /\ ~last.saved
            /\ StoreUnchanged
            /\ NoRpcSent
    /\ cur.op = "create" => Validate(Unwrap(cur.df))

\* C8 witness: an invalid dataflow for job J was rejected while a prior
\* incarnation of J is stored.
C8_Witness ==
    /\ LastIs("create")
    /\ ~Validate(Unwrap(last.df))
    /\ IsSome(last.df[1].job_id)
    /\ IsSome(Stored(store, last.job))

\* df1(J) was submitted successfully and a valid df2(J) was submitted next.
Resubmitted ==
    /\ LastIs("create")
    /\ Validate(Unwrap(last.df))
    /\ prev.op = "create" /\ prev.job = last.job /\ prev.res = "Ok"

\* C9 (as claimed): after df1(J) was submitted successfully and df2(J) was
\* submitted, every worker was sent stop(J) before create_sub_dataflow for
\* df2, and get_dataflow(J) returns df2. Stated for the in-memory backend,
\* whose storage cannot fail, and a second submission that found a worker to
\* place df2 on.
C9_ReplaceOnResubmit ==
    (Resubmitted /\ backend = "Memory" /\ last.avail # <<>>) =>
        /\ \A w \in 1..nWorkers : StopBeforeCreate(w, last.job)
        /\ Stored(store, last.job) = last.placed

\* C9 (amended): after df1(J) was submitted successfully and df2(J) was
\* submitted, J was in storage when the second submission began, and its
\* pre-emptive terminate sees it whenever may_exists reads without error
\* (always on the in-memory backend). If the terminate saw J and the
\* submission got as far as its save, every worker was sent a successful
\* stop(J) before any create_sub_dataflow of df2; once saved (so whenever
\* the submission returns Ok) the storage holds the placed df2; a submission
\* that did not get to its save sent no create_sub_dataflow.
C9_ReplaceWhenPreemptSucceeds ==
    Resubmitted =>
        /\ IsSome(Stored(last.storeBefore, last.job))
        /\ backend = "Memory" => last.existed
        /\ (last.existed /\ last.saved) =>
                \A w \in 1..nWorkers : StopBeforeCreate(w, last.job)
        /\ last.saved => Stored(store, last.job) = last.placed
        /\ last.res = "Ok" => last.saved
        /\ ~last.saved =>
                \A w \in 1..nWorkers : Sent(w, "create_sub_dataflow") = {}

\* C9 witness: df2(J) replaced a different df1(J) on a full cluster: every
\* worker was stopped and then given its part of df2, and J holds df2.
C9_Witness ==
    /\ Resubmitted
    /\ last.res = "Ok" /\ last.existed
    /\ nWorkers = MaxWorkers
    /\ Hosts(Unwrap(last.placed)) = 1..nWorkers
    /\ \A w \in 1..nWorkers :
         /\ StopBeforeCreate(w, last.job)
         /\ Sent(w, "create_sub_dataflow") # {}
    /\ Stored(store, last.job) = last.placed
    /\ Unwrap(Stored(last.storeBefore, last.job)).edges # Unwrap(last.df).edges

\* C10: create_dataflow returns Ok only if every worker that hosts a
\* partition was sent its create_sub_dataflow and accepted it; if a worker
\* failed its partition, create_dataflow returns that (first) failure.
C10_SuccessMeansAllAccepted ==
    /\ (LastIs("create") /\ last.res = "Ok") =>
            /\ ~FailedRpc("create_sub_dataflow")
            /\ \A w \in Hosts(Unwrap(last.placed)) :
                 \E i \in Sent(w, "create_sub_dataflow") :
                     /\ rpcLog[w][i].ok
                     /\ rpcLog[w][i].job = last.job
                     /\ rpcLog[w][i].nodes = SubDataflowNodes(Unwrap(last.placed), w)
    /\ (LastIs("create") /\ FailedRpc("create_sub_dataflow")) =>
            last.res = "Unavailable"

\* C10 witness: a dataflow spread over two workers was accepted by both and
\* create_dataflow returned Ok.
C10_Witness ==
    /\ LastIs("create") /\ last.res = "Ok"
    /\ Cardinality(Hosts(Unwrap(last.placed))) >= 2
    /\ \A w \in Hosts(Unwrap(last.placed)) :
         \E i \in Sent(w, "create_sub_dataflow") : rpcLog[w][i].ok

\* The call in progress, or the one that returned last when none is.
Call == IF pc = "idle" THEN last ELSE cur

\* The storage as terminate_dataflow leaves it for the call that returned last.
StoreAfterTerminate ==
    IF last.deleted THEN Delete(backend, last.storeBefore, last.job)
    ELSE last.storeBefore

\* Every RPC worker w was sent by the current (last) call failed / succeeded.
AllFailed(w) == \A i \in 1..Len(rpcLog[w]) : ~rpcLog[w][i].ok

AllOk(w) == \A i \in 1..Len(rpcLog[w]) : rpcLog[w][i].ok

\* The cluster [w0, w1] of the partial-deploy scenario, as the current (last)
\* call saw it: w1 (worker 2) failed every RPC, w0 (worker 1) none.
SecondWorkerDown ==
    /\ backend = "Memory"
    /\ nWorkers = 2
    /\ AllOk(1)
    /\ AllFailed(2)

\* The call before the last one was a create_dataflow of the same job that
\* saved its dataflow and then failed in the deployment.
AfterPartialDeploy ==
    /\ LastIs("terminate")
    /\ prev.op = "create" /\ prev.job = last.job
    /\ prev.deployFailed # {} /\ prev.res = "Unavailable"

\* C11 (as claimed): on cluster [w0, w1] where w1 fails every RPC,
\* create_dataflow(df(J)) of a new job returns Unavailable, sends no stop and
\* leaves the saved dataflow in storage; the terminate_dataflow(J) that
\* follows sends stop(J) to both workers and returns Closed.
C11_PartialDeployThenClosed ==
    /\ (/\ LastIs("create")
        /\ SecondWorkerDown
        /\ rpcLog[2] # <<>>
        /\ ~last.existed) =>
            /\ last.res = "Unavailable"
            /\ \A w \in 1..nWorkers : Sent(w, "stop_dataflow") = {}
            /\ Stored(store, last.job) = last.placed
    /\ (/\ AfterPartialDeploy
        /\ SecondWorkerDown
        /\ prev.deployFailed = {2}
        /\ ~prev.existed) =>
            /\ \A w \in 1..nWorkers : Sent(w, "stop_dataflow") # {}
            /\ last.res = "Closed"

\* C11 (amended): a create_dataflow whose deployment fails returns that
\* Unavailable error and rolls nothing back: it sends no stop after a
\* create_sub_dataflow and the saved, placed dataflow stays in storage. The
\* terminate_dataflow(J) that follows finds J (always on the in-memory
\* backend), deletes it and sends exactly one stop(J) to every worker; it
\* returns Closed exactly when every stop succeeded, and the Unavailable
\* error of a failed stop otherwise; J is gone from storage either way.
C11_PartialDeployThenBroadcast ==
    /\ (LastIs("create") /\ last.saved /\ FailedRpc("create_sub_dataflow")) =>
            /\ last.res = "Unavailable"
            /\ Stored(store, last.job) = last.placed
            /\ \A w \in 1..nWorkers :
                 \A i \in Sent(w, "stop_dataflow") :
                     \A k \in Sent(w, "create_sub_dataflow") : i < k
    /\ AfterPartialDeploy =>
            /\ IsSome(Stored(last.storeBefore, last.job))
            /\ backend = "Memory" => (last.existed /\ last.deleted)
            /\ (last.existed /\ last.deleted) =>
                 /\ \A w \in 1..nWorkers :
                      /\ Cardinality(Sent(w, "stop_dataflow")) = 1
                      /\ \A i \in Sent(w, "stop_dataflow") :
                           rpcLog[w][i].job = last.job
                 /\ (last.res = "Closed") = ~FailedRpc("stop_dataflow")
                 /\ FailedRpc("stop_dataflow") => last.res = "Unavailable"
                 /\ Stored(store, last.job) = NoneV

\* C11 witness: w1 failed its create_sub_dataflow, the submission returned
\* Unavailable with the dataflow saved; the terminate that followed reached
\* both workers, w1 failed its stop too, and the error was returned.
C11_Witness ==
    /\ AfterPartialDeploy
    /\ SecondWorkerDown
    /\ prev.deployFailed = {2}
    /\ \A w \in 1..nWorkers : Sent(w, "stop_dataflow") # {}
    /\ last.res = "Unavailable"

\* The pre-emptive terminate_dataflow of the call returned an error: its
\* delete failed, or a worker failed its stop.
PreemptFailed(c) ==
    c.existed /\ (~c.deleted \/ FailedRpc("stop_dataflow"))

\* C12: when the pre-emptive terminate_dataflow of create_dataflow returns an
\* error, create_dataflow returns that error, the new dataflow is not saved
\* and no create_sub_dataflow is sent; a submission gets to its save only
\* after a terminate that did not fail.
C12_PreemptErrorAborts ==
    /\ (LastIs("create") /\ PreemptFailed(last)) =>
            /\ last.res = (IF last.deleted THEN "Unavailable" ELSE "Internal")
            /\ ~last.saved
            /\ store = StoreAfterTerminate
            /\ \A w \in 1..nWorkers : Sent(w, "create_sub_dataflow") = {}
    /\ (cur.op = "create" /\ pc \in {"save", "deploy"}) => ~PreemptFailed(cur)

\* C12 witness: a resubmission found the prior incarnation, deleted it, a
\* worker failed its stop, and the submission returned that error.
C12_Witness ==
    /\ LastIs("create")
    /\ last.existed /\ last.deleted
    /\ FailedRpc("stop_dataflow")
    /\ last.res = "Unavailable"
    /\ nWorkers = MaxWorkers

\* The save of the create_dataflow that returned last failed: the call got
\* past its pre-emptive terminate and returned the storage's error.
SaveFailed ==
    /\ LastIs("create")
    /\ Validate(Unwrap(last.df))
    /\ ~PreemptFailed(last)
    /\ last.res = "Internal"

\* C13: a storage error during save aborts the submission: create_dataflow
\* returns an error, nothing is stored and no create_sub_dataflow is sent; the
\* deployment starts only after a successful save.
C13_SaveErrorAborts ==
    /\ SaveFailed =>
            /\ ~last.saved
            /\ store = StoreAfterTerminate
            /\ \A w \in 1..nWorkers : Sent(w, "create_sub_dataflow") = {}
    /\ (\E w \in 1..nWorkers : Sent(w, "create_sub_dataflow") # {}) => Call.saved
    /\ pc = "deploy" => cur.saved

\* C13 witness: on a cluster with workers, the save of a valid submission
\* failed and the submission returned the error.
C13_Witness ==
    /\ SaveFailed
    /\ nWorkers = MaxWorkers
    /\ last.avail # <<>>

\* C14: a storage error during delete aborts terminate_dataflow before any
\* broadcast: the error is returned, the storage is as it was and no
\* stop_dataflow is sent; the broadcast starts only after a successful delete.
C14_DeleteErrorAborts ==
    /\ (pc = "idle" /\ last.existed /\ ~last.deleted) =>
            /\ last.res = "Internal"
            /\ StoreUnchanged
            /\ NoRpcSent
    /\ (\E w \in 1..nWorkers : Sent(w, "stop_dataflow") # {}) => Call.deleted
    /\ pc = "stop" => cur.deleted

\* C14 witness: terminate_dataflow of a stored job on a cluster with workers
\* returned the delete error.
C14_Witness ==
    /\ LastIs("terminate")
    /\ last.existed /\ ~last.deleted
    /\ last.res = "Internal"
    /\ IsSome(Stored(store, last.job))
    /\ nWorkers = MaxWorkers

\* C15: in terminate_dataflow the delete comes before the broadcast: while
\* stops are being sent, and whenever terminate_dataflow returns the error of
\* a failed stop, the job is absent from storage (get returns none,
\* may_exists is false).
C15_DeleteBeforeBroadcast ==
    /\ (LastIs("terminate") /\ FailedRpc("stop_dataflow")) =>
            /\ last.res = "Unavailable"
            /\ Stored(store, last.job) = NoneV
            /\ ~MayExists(backend, store, last.job, FALSE)
    /\ pc = "stop" =>
            /\ Stored(store, cur.job) = NoneV
            /\ ~MayExists(backend, store, cur.job, FALSE)

\* C15 witness: a stored job was terminated, one worker stopped it and
\* another failed to; the error was returned and the job is not in storage.
C15_Witness ==
    /\ LastIs("terminate")
    /\ IsSome(Stored(last.storeBefore, last.job))
    /\ last.res = "Unavailable"
    /\ \E w, v \in 1..nWorkers : ~AllOk(w) /\ AllOk(v) /\ rpcLog[v] # <<>>
    /\ Stored(store, last.job) = NoneV

\* The operator at index i (from 0) of df is placed on W[i mod |W|].
RoundRobin(df, W) ==
    \A i \in 1..Len(df.nodes) :
        df.nodes[i].host_addr = Some(W[((i - 1) % Len(W)) + 1])

\* C16: with W the ordered list of workers that are not Unreachable (not
\* empty), the dataflow create_dataflow persists is the submitted one with
\* the operator at index i placed on W[i mod |W|]: same operators and edges,
\* every host_addr that of a worker that is not Unreachable.
C16_RoundRobinPersisted ==
    /\ (pc # "idle" /\ cur.op = "create") =>
            cur.avail = AvailableWorkers(nWorkers, status)
    /\ (Call.op = "create" /\ Call.saved /\ Call.avail # <<>>) =>
            /\ IsSome(Stored(store, Call.job))
            /\ Stored(store, Call.job) = Call.placed
            /\ RoundRobin(Unwrap(Stored(store, Call.job)), Call.avail)
            /\ Unwrap(Stored(store, Call.job)).edges = Unwrap(Call.df).edges
            /\ Unwrap(Stored(store, Call.job)).job_id = Unwrap(Call.df).job_id
            /\ \A i \in 1..Len(Unwrap(Call.df).nodes) :
                 Unwrap(Stored(store, Call.job)).nodes[i].executor_id
                    = Unwrap(Call.df).nodes[i].executor_id
            /\ \A w \in Hosts(Unwrap(Stored(store, Call.job))) :
                 \E k \in 1..Len(Call.avail) : Call.avail[k] = w

\* C16 witness: three operators over two available workers wrap around
\* (w0, w1, w0), persisted through the encoding of the persistent backend.
C16_Witness ==
    /\ LastIs("create") /\ last.saved
    /\ backend = "Persist"
    /\ Len(last.avail) = 2
    /\ Len(Unwrap(last.df).nodes) = 3
    /\ Unwrap(Stored(store, last.job)).nodes[3].host_addr = Some(last.avail[1])
    /\ Unwrap(Stored(store, last.job)).nodes[2].host_addr = Some(last.avail[2])

\* The call before the last one was a create_dataflow of the same job whose
\* pre-emptive terminate found the job and failed in the broadcast.
AfterFailedPreempt ==
    /\ prev.op = "create" /\ prev.job = last.job
    /\ prev.existed
    /\ prev.res = "Unavailable" /\ prev.deployFailed = {}

\* C25: when create_dataflow(df2(J)) finds a stored df1(J) and its
\* pre-emptive terminate fails in the broadcast, it returns that error with
\* J absent from storage: df1 was deleted, df2 was not saved, get_dataflow(J)
\* returns none, no create_sub_dataflow was sent; the terminate_dataflow(J)
\* that follows returns Closed and sends no stop.
C25_FailedPreemptLeavesNothing ==
    /\ (LastIs("create") /\ last.existed /\ FailedRpc("stop_dataflow")) =>
            /\ last.res = "Unavailable"
            /\ IsSome(Stored(last.storeBefore, last.job))
            /\ last.deleted /\ ~last.saved
            /\ Stored(store, last.job) = NoneV
            /\ \A w \in 1..nWorkers : Sent(w, "create_sub_dataflow") = {}
    /\ (LastIs("terminate") /\ AfterFailedPreempt) =>
            /\ ~last.existed
            /\ last.res = "Closed"
            /\ NoRpcSent
            /\ Stored(store, last.job) = NoneV

\* C25 witness: on a full cluster a resubmission failed in the broadcast of
\* its pre-emptive terminate, and the terminate that followed returned
\* Closed without any RPC.
C25_Witness ==
    /\ LastIs("terminate")
    /\ AfterFailedPreempt
    /\ nWorkers = MaxWorkers
    /\ last.res = "Closed"
    /\ NoRpcSent

----------------------------------------------------------------------------
(* Storage claims *)

\* C17: in both backends, after any sequence of save and delete operations,
\* get(job_id) returns the dataflow saved last under that job id, identical
\* to the one given to save (through the encoding, in the persistent
\* backend), or none if the job was never saved or was deleted since; a save
\* replaces what the key held and touches no other key. A get whose read of
\* the persistent store fails returns none.
C17_SaveGetRoundTrip ==
    /\ DOMAIN shadow = StorageJobs =>
            \A j \in StorageJobs : Stored(store, j) = shadow[j]
    /\ stLast.op = "get" =>
            stLast.res = (IF stLast.fault THEN NoneV ELSE shadow[stLast.job])
    /\ (stLast.op = "save" /\ stLast.res = "Ok") =>
            /\ Stored(store, stLast.job) = stLast.df
            /\ \A j \in StorageJobs \ {stLast.job} :
                 Stored(store, j) = Stored(stLast.before, j)

\* C17 witness: in the persistent backend a save replaced a different
\* dataflow of the same job, and the get that followed returned the new one.
C17_Witness ==
    /\ backend = "Persist"
    /\ stLast.op = "get" /\ ~stLast.fault
    /\ stPrev.op = "save" /\ stPrev.job = stLast.job /\ stPrev.res = "Ok"
    /\ IsSome(stLast.res)
    /\ \E i \in 1..Len(Unwrap(stLast.res).nodes) :
         IsSome(Unwrap(stLast.res).nodes[i].host_addr)

\* C18: may_exists(job_id) does not return false for a job that was saved
\* and not deleted since, in either backend.
C18_MayExistsNoFalseNegative ==
    (/\ stLast.op = "may_exists"
     /\ stLast.job \in JobIds
     /\ IsSome(shadow[stLast.job])) => stLast.res

\* C19: deleting an absent key succeeds and leaves the store as it was, in
\* both backends; a delete that succeeded leaves the key absent, so a second
\* delete of the same job succeeds and changes nothing. (A delete returns an
\* error only when the persistent store reports one.)
C19_DeleteIdempotent ==
    /\ (stLast.op = "delete" /\ ~stLast.fault) =>
            /\ stLast.res = "Ok"
            /\ Stored(store, stLast.job) = NoneV
            /\ ~MayExists(backend, store, stLast.job, FALSE)
            /\ Stored(stLast.before, stLast.job) = NoneV => store = stLast.before
    /\ (/\ stLast.op = "delete" /\ ~stLast.fault
        /\ stPrev.op = "delete" /\ stPrev.job = stLast.job /\ stPrev.res = "Ok") =>
            /\ stLast.res = "Ok"
            /\ store = stLast.before

\* C19 witness: a job was deleted twice in a row while another job is stored;
\* both deletes succeeded.
C19_Witness ==
    /\ stLast.op = "delete" /\ stLast.res = "Ok"
    /\ stPrev.op = "delete" /\ stPrev.job = stLast.job /\ stPrev.res = "Ok"
    /\ store = stLast.before
    /\ \E j \in StorageJobs : IsSome(Stored(store, j))

----------------------------------------------------------------------------
(* Mock gateway claims *)

\* The acks in the order in which they landed in the ack queue.
Landed == mkRecv \o mkQueue

\* C20: on a mock gateway whose ack queue has capacity 1, the acks of
\* concurrently launched receive_ack calls land in the queue in the order in
\* which the calls were made: a call is given the slot only after every
\* earlier call has returned, and the acks landed are those of the calls
\* that returned Ok, in invocation order.
C20_MockFifo ==
    mkCap = 1 =>
        /\ \A k \in 1..(Len(Landed) - 1) : Landed[k] < Landed[k + 1]
        /\ \A i, j \in 1..Len(mkCalls) :
             (i < j /\ (mkCalls[j].state = "permitted" \/ mkCalls[j].result = "Ok"))
                => mkCalls[i].state = "done"
        /\ mkRxOpen =>
             {Landed[k] : k \in 1..Len(Landed)}
                = {AckOf(i) : i \in {c \in 1..Len(mkCalls) : mkCalls[c].result = "Ok"}}

\* C20 witness: capacity 1, four calls launched before the receiver took
\* anything; the first two acks were received in order, the third is in the
\* queue and the fourth still waits.
C20_Witness ==
    /\ mkCap = 1
    /\ mkRecv = <<AckOf(1), AckOf(2)>>
    /\ mkQueue = <<AckOf(3)>>
    /\ mkWaiters = <<4>>

\* How many times ack a occurs in the sequence q.
Occurrences(q, a) == Cardinality({k \in 1..Len(q) : q[k] = a})

----------------------------------------------------------------------------
(* Claims about concurrent submissions *)

BothReturned == \A t \in Submitters : subs[t].pc = "done"

DifferentJobs == subs[1].job # subs[2].job

\* The submissions run one after the other from the initial storage, each
\* with the faults and answers it met.
FirstAlone == RunAlone(backend, store0, nWorkers, subs[1])

SecondAfterFirst == RunAlone(backend, FirstAlone.store, nWorkers, subs[2])

\* C22: two concurrent submissions for different jobs, however their storage
\* operations and worker RPCs interleave, end in the storage state, with the
\* worker RPCs and with the results of running one and then the other; no
\* RPC of one submission names the other's job.
C22_DifferentJobsCommute ==
    (BothReturned /\ DifferentJobs) =>
        /\ store = SecondAfterFirst.store
        /\ SentRpcs(subs[1]) = FirstAlone.rpcs
        /\ SentRpcs(subs[2]) = SecondAfterFirst.rpcs
        /\ subs[1].res = FirstAlone.res
        /\ subs[2].res = SecondAfterFirst.res
        /\ \A t \in Submitters : \A x \in subs[t].rpcs : x.entry.job = subs[t].job

\* C22 witness: two submissions for different jobs have returned Ok after
\* they interleaved (each was past terminate_dataflow before the other had
\* saved); the first replaced a stored job, and both dataflows are stored.
C22_Witness ==
    /\ BothReturned /\ DifferentJobs
    /\ \A t \in Submitters : subs[t].raced
    /\ \A t \in Submitters : subs[t].res = "Ok"
    /\ \E x \in subs[1].rpcs : x.entry.rpc = "stop_dataflow"
    /\ \E x \in subs[1].rpcs : x.entry.rpc = "create_sub_dataflow"
    /\ \A t \in Submitters :
         Get(backend, store, subs[t].job, FALSE) = subs[t].placed

SameJob == subs[1].job = subs[2].job

\* Both submissions got past terminate_dataflow before either ran its save.
Raced == \A t \in Submitters : subs[t].raced

BothDeployed == BothReturned /\ \A t \in Submitters : subs[t].res = "Ok"

StopAfterDeploy ==
    \E t \in Submitters : \E x \in subs[t].rpcs :
        x.entry.rpc = "stop_dataflow" /\ x.afterDeploy

\* C24: when two submissions of one job both get past terminate_dataflow
\* before either saves and both are deployed, no stop_dataflow for the job
\* was sent once a deployment had begun, and the storage holds the dataflow
\* of one of the two, so that a deployed dataflow that differs from it is
\* not in the storage.
C24_RaceDeploysBoth ==
    (SameJob /\ Raced /\ BothDeployed) =>
        /\ ~StopAfterDeploy
        /\ \E t \in Submitters :
             Get(backend, store, subs[t].job, FALSE) = subs[t].placed
        /\ (subs[1].placed # subs[2].placed) =>
             \E t \in Submitters :
                Get(backend, store, subs[t].job, FALSE) # subs[t].placed

\* C24 witness: on the persistent backend, whose operations are suspension
\* points, two different dataflows of one job were both deployed after both
\* submissions got past terminate_dataflow before either saved; no
\* stop_dataflow was sent after a deployment began and the storage holds
\* only the first submission's dataflow or only the second's.
C24_Witness ==
    /\ backend = "Persist"
    /\ SameJob /\ Raced /\ BothDeployed
    /\ subs[1].placed # subs[2].placed
    /\ \A t \in Submitters :
         \E x \in subs[t].rpcs : x.entry.rpc = "create_sub_dataflow" /\ x.entry.ok
    /\ ~StopAfterDeploy
    /\ \E t \in Submitters :
         Get(backend, store, subs[t].job, FALSE) # subs[t].placed

====
